---- MODULE Spec2Model ----
(***************************************************************************)
(* Model of music_presence (src/src/main.rs): the playerctl reader with    *)
(* its cover upload tasks, the unbounded mpsc channel, and the Discord     *)
(* presence loop of main with App::handle.                                 *)
(*                                                                         *)
(* Strings that the code takes apart or puts together (art urls, the       *)
(* activity state line) are sequences of tokens, so that strip_prefix,     *)
(* replacen and format! are computed rather than assumed.  Other strings   *)
(* are TLA+ strings.  An Option is a sequence of length 0 or 1.            *)
(***************************************************************************)
EXTENDS Integers, Sequences, FiniteSets, TLC

\* ------------------------------------------------------------------ bounds
MaxLines == 2         \* lines read in the specification of the whole program
MaxRetries == 2       \* largest --retries value
MaxReaderLines == 3   \* lines read in the specification of the producers
MaxLiveLines == 1     \* lines read in the specification with fairness
MaxDecodeLines == 1   \* lines read in the specification of the decoder
MaxOkLines == 2       \* lines read in the specification without failures

\* ------------------------------------------------------- track_info module
FilePrefix == "file://"

DefaultTrack ==
  [title |-> "", artist |-> "", album |-> "", art_url |-> <<>>, player |-> "",
   art_is_local |-> FALSE, start |-> 0, length |-> 0, paused |-> FALSE]

\* a plausible slip: every leading marker is removed (trim_start_matches)
RECURSIVE DropMarkers(_)
DropMarkers(s) ==
  IF Len(s) > 0 /\ Head(s) = FilePrefix THEN DropMarkers(Tail(s)) ELSE s

StripPrefixAll(s) ==
  IF Len(s) > 0 /\ Head(s) = FilePrefix THEN <<DropMarkers(s)>> ELSE <<>>

\* str::strip_prefix("file://"): Some(rest) when the string starts with it
StripPrefix(s) ==
  IF Len(s) > 0 /\ Head(s) = FilePrefix THEN <<Tail(s)>> ELSE <<>>

\* a decodable line: the JSON object's string fields; status and length are
\* options (status key absent; length string that does not parse as i64)
JsonLine(t, ar, al, art, len, st) ==
  [kind |-> "json", title |-> t, artist |-> ar, album |-> al, art_url |-> art,
   length |-> len, status |-> st, player |-> "kew"]

BlankLine == [JsonLine("", "", "", <<>>, <<>>, <<>>) EXCEPT !.kind = "blank"]
GarbageLine == [JsonLine("", "", "", <<>>, <<>>, <<>>) EXCEPT !.kind = "garbage"]

\* impl Deserialize for TrackInfo; clock is SystemTime::now() in ms
Deserialize(line, clock) ==
  LET stripped == StripPrefix(line.art_url)
  IN  [title        |-> line.title,
       artist       |-> line.artist,
       album        |-> line.album,
       player       |-> line.player,
       art_url      |-> IF stripped # <<>> THEN stripped[1] ELSE line.art_url,
       art_is_local |-> stripped # <<>>,
       start        |-> clock,
       length       |-> IF line.length # <<>> THEN line.length[1] ELSE 0,
       paused       |-> IF line.status # <<>>
                          THEN line.status[1] # "Playing" ELSE TRUE]

\* a plausible slip: equality derived over every field
TrackEqDerived(a, b) == a = b

\* impl PartialEq for TrackInfo
TrackEq(a, b) ==
  /\ a.title = b.title
  /\ a.artist = b.artist
  /\ a.album = b.album
  /\ a.art_is_local = b.art_is_local
  /\ a.length = b.length

\* ------------------------------------------------------------ TrackUpdate
NewUpdate(t, ln) == [type |-> "New", track |-> t, url |-> <<>>, line |-> ln]
ImageUploaded(u, ln) ==
  [type |-> "ImageUploaded", track |-> DefaultTrack, url |-> u, line |-> ln]
NoneUpdate(ln) ==
  [type |-> "None", track |-> DefaultTrack, url |-> <<>>, line |-> ln]
NoUpdate == [type |-> "-", track |-> DefaultTrack, url |-> <<>>, line |-> 0]

\* ------------------------------------------------------- the input stream
\* What playerctl may print: tracks A and B with local covers (B with the
\* cover of A and a negative length, or with its own cover and a length that
\* is no number), A paused, an empty line and an undecodable line; for the producers also D with a remote cover and C whose cover url
\* is the bare scheme.
PathP == <<"/tmp/p.jpg">>
PathQ == <<"/tmp/q.jpg">>
LenA == 245999
LenNeg == 0 - 1500

Lines ==
  { JsonLine("A", "X", "", <<FilePrefix>> \o PathP, <<LenA>>, <<"Playing">>),
    JsonLine("A", "X", "", <<FilePrefix>> \o PathP, <<LenA>>, <<"Paused">>),
    JsonLine("B", "X", "L", <<FilePrefix>> \o PathQ, <<LenNeg>>, <<"Playing">>),
    BlankLine,
    GarbageLine }

ProducerLines ==
  Lines \cup
  { JsonLine("B", "X", "L", <<FilePrefix>> \o PathP, <<>>, <<"Playing">>),
    JsonLine("D", "X", "", <<"https://r/d.png">>, <<LenA>>, <<"Playing">>),
    JsonLine("C", "X", "", <<FilePrefix>>, <<LenA>>, <<"Playing">>) }

\* for the decoder: every combination of these art urls, statuses and lengths
DecodeArts ==
  { <<FilePrefix>> \o PathP,
    <<FilePrefix, FilePrefix>> \o PathP,
    <<"https://r/d.png">>,
    <<"https://r/", FilePrefix, "x">>,
    <<FilePrefix>>,
    <<>> }

DecodeStatuses == { <<"Playing">>, <<"Paused">>, <<"playing">>, <<>> }

DecodeLines ==
  { JsonLine("A", "X", "", art, len, st) :
      art \in DecodeArts, len \in {<<LenA>>, <<>>}, st \in DecodeStatuses }
  \cup {BlankLine, GarbageLine}

\* for the runs without failures: a second track with the art of the first
OkLines ==
  Lines \cup
  { JsonLine("B", "X", "L", <<FilePrefix>> \o PathP, <<LenA>>, <<"Playing">>) }

\* ---------------------------------------------------------- media_listener
UploadHost == "https://tmpfiles.org/"
DownloadHost == "https://tmpfiles.org/dl/"

\* str::replacen(from, to, 1) on a token string
RECURSIVE Replacen1(_, _, _)
Replacen1(s, from, to) ==
  IF s = <<>> THEN <<>>
  ELSE IF Head(s) = from THEN <<to>> \o Tail(s)
  ELSE <<Head(s)>> \o Replacen1(Tail(s), from, to)

\* the url field of the tmpfiles.org response for an uploaded file
ResponseUrl(path) == <<UploadHost>> \o path

\* upload_cover, success path: the update it sends
UploadResult(task) ==
  ImageUploaded(Replacen1(ResponseUrl(task.url), UploadHost, DownloadHost),
                task.line)

\* a plausible slip: always upload local art
NeedsUploadAlways(t, last) == t.art_is_local

\* subscribe, lines 308-309: does this record start an upload
NeedsUpload(t, last) == t.art_is_local /\ t.art_url # last

\* a plausible slip: the key is not updated
NextKeyStale(t, last) == last

\* subscribe, line 310: the new value of last_track when an upload starts
NextKey(t, last) == t.art_url

\* --------------------------------------------------------------- App (IPC)
NoAct ==
  [state |-> <<>>, details |-> "", large_image |-> <<>>, start |-> 0, end |-> 0]

Call(op, act) == [op |-> op, act |-> act]

\* a plausible slip: division that rounds down
TruncDivFloor(a, b) == a \div b

\* i64 division truncates toward zero
TruncDiv(a, b) == IF a >= 0 THEN a \div b ELSE -((-a) \div b)

\* App::set_activity, lines 153-183: the activity built from self.track
ActivityOf(t) ==
  [state       |-> <<"by: ", t.artist>> \o
                   (IF t.album # "" THEN <<", in: ", t.album>> ELSE <<>>),
   details     |-> t.title,
   large_image |-> t.art_url,
   start       |-> t.start,
   end         |-> t.start + TruncDiv(t.length, 1000)]

\* The IPC operations that can fail; f names the one that fails if reached.
FailPoints == {"none", "new", "connect", "set_activity", "clear_activity", "close"}

\* App::set_activity: result [ok, client, calls]
SetActivity(t, cl, f) ==
  LET pre == IF cl = "Some" THEN <<>>
             ELSE IF f = "new" THEN <<Call("new", NoAct)>>
             ELSE <<Call("new", NoAct), Call("connect", NoAct)>>
      connected == cl = "Some" \/ f \notin {"new", "connect"}
  IN  IF ~connected
        THEN [ok |-> FALSE, client |-> "None", calls |-> pre]
        ELSE [ok |-> f # "set_activity", client |-> "Some",
              calls |-> pre \o <<Call("set_activity", ActivityOf(t))>>]

\* a plausible slip: the handle is kept after close
ClearActivityKeepsClient(cl, f) ==
  IF cl = "None" THEN [ok |-> TRUE, client |-> "None", calls |-> <<>>]
  ELSE [ok |-> f \notin {"clear_activity", "close"}, client |-> "Some",
        calls |-> IF f = "clear_activity"
                    THEN <<Call("clear_activity", NoAct)>>
                    ELSE <<Call("clear_activity", NoAct), Call("close", NoAct)>>]

\* App::clear_activity: result [ok, client, calls]
ClearActivity(cl, f) ==
  IF cl = "None" THEN [ok |-> TRUE, client |-> "None", calls |-> <<>>]
  ELSE IF f = "clear_activity"
    THEN [ok |-> FALSE, client |-> "Some",
          calls |-> <<Call("clear_activity", NoAct)>>]
  ELSE IF f = "close"
    THEN [ok |-> FALSE, client |-> "Some",
          calls |-> <<Call("clear_activity", NoAct), Call("close", NoAct)>>]
  ELSE [ok |-> TRUE, client |-> "None",
        calls |-> <<Call("clear_activity", NoAct), Call("close", NoAct)>>]

\* a plausible slip: the client that failed is kept
ClientAfterErrKept(cl) == cl

\* main, line 97: args.client after handle returned Err with client cl
ClientAfterErr(cl) == "None"

\* a plausible slip: one wait too many
RetryAgainOffByOne(k, n) == k < n

\* main, line 98: is another attempt left after attempt k failed
RetryAgain(k, n) == k < n - 1

\* a plausible slip: the newest update first
ChanRecvNewest(q) == [msg |-> q[Len(q)], rest |-> SubSeq(q, 1, Len(q) - 1)]

\* UnboundedReceiver::recv on a non-empty channel
ChanRecv(q) == [msg |-> Head(q), rest |-> Tail(q)]

\* UnboundedSender::send
ChanSend(q, u) == Append(q, u)

\* which arm of App::handle an update takes
BranchOf(u, t) ==
  IF u.type = "New"
    THEN IF u.track.paused THEN "paused"
         ELSE IF ~TrackEq(u.track, t) THEN "new" ELSE "refresh"
  ELSE IF u.type = "ImageUploaded" THEN "image"
  ELSE "stopped"

\* App::handle: result [ok, track, client, calls, branch]
Handle(u, t, cl, f) ==
  LET b  == BranchOf(u, t)
      t2 == IF b = "new" THEN u.track
            ELSE IF b = "image" THEN [t EXCEPT !.art_url = u.url]
            ELSE t
      r  == IF b \in {"paused", "stopped"} THEN ClearActivity(cl, f)
            ELSE SetActivity(t2, cl, f)
  IN  [ok |-> r.ok, track |-> t2, client |-> r.client, calls |-> r.calls,
       branch |-> b]

\* ------------------------------------------------------------------ state
VARIABLES
  remaining,   \* lines playerctl will still print before its stdout ends
  rPc,         \* subscribe: "reading", "spawned" (between the spawn of line
               \* 312 and the send of line 319) or "eof" (returned Err)
  pending,     \* the New update subscribe is about to send
  now,         \* SystemTime::now(), ms
  last_track,  \* subscribe's last_track
  uploads,     \* upload_cover tasks in flight: [url, line]
  queue,       \* the unbounded mpsc channel
  cPc,         \* main loop: "recv", "attempt", "sleep", "done"
  update,      \* main's update
  i,           \* the for loop's i
  retries,     \* args.retries
  track,       \* args.track
  client,      \* args.client: "None" or "Some"
  calls,       \* IPC calls made by the latest call of handle
  branch,      \* arm taken by the latest call of handle for this update
  attempts,    \* calls of handle for this update
  sleeps,      \* sleeps for this update
  outcome,     \* how the latest update ended: applied, dropped, skipped
  enqLog,      \* every update ever sent, in send order
  nDeq,        \* updates received so far
  nDone,       \* updates whose handling has ended
  nDropped,    \* updates given up after the last failed attempt
  track0,      \* args.track when this update was received
  client0,     \* args.client when this update was received
  spawned,     \* every upload task ever spawned, in spawn order
  upFailed,    \* the upload tasks that returned Err
  lineLog,     \* the kind of every line subscribe is done with, in order
  rawLog       \* every line read, in read order

vars == <<remaining, rPc, now, last_track, uploads, queue, cPc, update, i,
          retries, track, client, calls, branch, attempts, sleeps, outcome,
          enqLog, nDeq, nDone, nDropped, track0, client0, spawned, upFailed,
          lineLog, pending, rawLog>>

readerVars == <<remaining, rPc, now, last_track, lineLog, pending, rawLog>>
ctlVars == <<cPc, update, i, retries, track, client, calls, branch, attempts,
             sleeps, outcome, nDeq, nDone, nDropped, track0, client0>>

InitWith(n) ==
  /\ remaining = n
  /\ rPc = "reading"
  /\ now = 1
  /\ last_track = <<>>
  /\ uploads = {}
  /\ queue = <<>>
  /\ cPc = "recv"
  /\ update = NoUpdate
  /\ i = 0
  /\ retries \in 0..MaxRetries
  /\ track = DefaultTrack
  /\ client = "None"
  /\ calls = <<>>
  /\ branch = "-"
  /\ attempts = 0
  /\ sleeps = 0
  /\ outcome = "-"
  /\ enqLog = <<>>
  /\ nDeq = 0
  /\ nDone = 0
  /\ nDropped = 0
  /\ track0 = DefaultTrack
  /\ client0 = "None"
  /\ spawned = <<>>
  /\ upFailed = {}
  /\ lineLog = <<>>
  /\ pending = NoUpdate
  /\ rawLog = <<>>

Init == InitWith(MaxLines)

\* ----------------------------------------------------------------- reader
Send(u) == queue' = ChanSend(queue, u) /\ enqLog' = Append(enqLog, u)

\* subscribe, an iteration of the loop on a line that decodes: all of it when
\* no upload is needed, else up to the spawn of the upload task, which may
\* run on another worker thread before subscribe sends the record
ReadTrack(line) ==
  /\ rPc = "reading" /\ remaining > 0
  /\ line.kind = "json"
  /\ LET t == Deserialize(line, now)
     IN  IF NeedsUpload(t, last_track)
           THEN /\ last_track' = NextKey(t, last_track)
                /\ uploads' = uploads \cup {[url |-> t.art_url, line |-> now]}
                /\ spawned' = Append(spawned, [url |-> t.art_url, line |-> now])
                /\ pending' = NewUpdate(t, now)
                /\ rPc' = "spawned"
                /\ UNCHANGED <<queue, enqLog, lineLog>>
           ELSE /\ Send(NewUpdate(t, now))
                /\ lineLog' = Append(lineLog, line.kind)
                /\ UNCHANGED <<last_track, uploads, spawned, pending, rPc>>
  /\ remaining' = remaining - 1
  /\ now' = now + 1
  /\ rawLog' = Append(rawLog, line)
  /\ UNCHANGED <<upFailed, ctlVars>>

\* subscribe, line 319, after an upload task was spawned
SendNew ==
  /\ rPc = "spawned"
  /\ Send(pending)
  /\ pending' = NoUpdate
  /\ rPc' = "reading"
  /\ lineLog' = Append(lineLog, "json")
  /\ UNCHANGED <<remaining, now, last_track, rawLog, uploads, spawned, upFailed,
                 ctlVars>>

\* subscribe, one iteration on an empty or whitespace-only line
ReadBlank(line) ==
  /\ rPc = "reading" /\ remaining > 0
  /\ line.kind = "blank"
  /\ Send(NoneUpdate(now))
  /\ remaining' = remaining - 1
  /\ now' = now + 1
  /\ lineLog' = Append(lineLog, line.kind)
  /\ rawLog' = Append(rawLog, line)
  /\ UNCHANGED <<rPc, pending, last_track, uploads, spawned, upFailed, ctlVars>>

\* a plausible slip: every line that does not decode counts as "stopped"
ReadGarbageAsStop(line) ==
  /\ rPc = "reading" /\ remaining > 0
  /\ line.kind = "garbage"
  /\ Send(NoneUpdate(now))
  /\ remaining' = remaining - 1
  /\ now' = now + 1
  /\ lineLog' = Append(lineLog, line.kind)
  /\ rawLog' = Append(rawLog, line)
  /\ UNCHANGED <<rPc, pending, last_track, uploads, spawned, upFailed, ctlVars>>

\* subscribe, one iteration on a non-blank line that does not decode
ReadGarbage(line) ==
  /\ rPc = "reading" /\ remaining > 0
  /\ line.kind = "garbage"
  /\ remaining' = remaining - 1
  /\ now' = now + 1
  /\ lineLog' = Append(lineLog, line.kind)
  /\ rawLog' = Append(rawLog, line)
  /\ UNCHANGED <<rPc, pending, last_track, uploads, spawned, upFailed, queue,
                 enqLog, ctlVars>>

\* next_line yields None (or the spawn failed): subscribe returns Err
ReadEof ==
  /\ rPc = "reading"
  /\ rPc' = "eof"
  /\ UNCHANGED <<remaining, now, last_track, lineLog, pending, rawLog, uploads,
                 spawned, upFailed, queue, enqLog, ctlVars>>

\* upload_cover runs to its end and sends ImageUploaded
UploadOk(task) ==
  /\ task \in uploads
  /\ uploads' = uploads \ {task}
  /\ Send(UploadResult(task))
  /\ UNCHANGED <<readerVars, spawned, upFailed, ctlVars>>

\* a plausible slip: a failed upload reports an empty url
UploadFailReports(task) ==
  /\ task \in uploads
  /\ uploads' = uploads \ {task}
  /\ upFailed' = upFailed \cup {task}
  /\ Send(ImageUploaded(<<>>, task.line))
  /\ UNCHANGED <<readerVars, spawned, ctlVars>>

\* upload_cover returns Err at any of its ? points
UploadFail(task) ==
  /\ task \in uploads
  /\ uploads' = uploads \ {task}
  /\ upFailed' = upFailed \cup {task}
  /\ UNCHANGED <<readerVars, spawned, queue, enqLog, ctlVars>>

\* ------------------------------------------------------------- controller
\* rx.recv() yields an update; with retries = 0 the for loop has no iteration
Recv ==
  /\ cPc = "recv" /\ queue # <<>>
  /\ update' = ChanRecv(queue).msg
  /\ queue' = ChanRecv(queue).rest
  /\ nDeq' = nDeq + 1
  /\ track0' = track
  /\ client0' = client
  /\ i' = 0 /\ attempts' = 0 /\ sleeps' = 0 /\ branch' = "-" /\ calls' = <<>>
  /\ IF 0 < retries
       THEN cPc' = "attempt" /\ outcome' = "-" /\ UNCHANGED nDone
       ELSE cPc' = "recv" /\ outcome' = "skipped" /\ nDone' = nDone + 1
  /\ UNCHANGED <<retries, track, client, nDropped, readerVars, uploads,
                 spawned, upFailed, enqLog>>

\* one iteration of the for loop, up to its sleep, its break or its end
Attempt(f) ==
  /\ cPc = "attempt"
  /\ LET r == Handle(update, track, client, f)
     IN  /\ track' = r.track
         /\ calls' = r.calls
         /\ branch' = r.branch
         /\ attempts' = attempts + 1
         /\ IF r.ok
              THEN /\ client' = r.client
                   /\ cPc' = "recv" /\ outcome' = "applied"
                   /\ nDone' = nDone + 1
                   /\ UNCHANGED <<i, nDropped>>
              ELSE /\ client' = ClientAfterErr(r.client)
                   /\ IF RetryAgain(i, retries)
                        THEN /\ cPc' = "sleep"
                             /\ UNCHANGED <<outcome, nDone, i, nDropped>>
                        ELSE /\ i' = i + 1
                             /\ IF i + 1 < retries
                                  THEN /\ cPc' = "attempt"
                                       /\ UNCHANGED <<outcome, nDone, nDropped>>
                                  ELSE /\ cPc' = "recv" /\ outcome' = "dropped"
                                       /\ nDone' = nDone + 1
                                       /\ nDropped' = nDropped + 1
  /\ UNCHANGED <<update, retries, sleeps, nDeq, track0, client0, readerVars,
                 uploads, spawned, upFailed, queue, enqLog>>

\* a plausible slip: the loop starts over after a sleep
WakeRestarts ==
  /\ cPc = "sleep"
  /\ i' = 0
  /\ sleeps' = sleeps
  /\ cPc' = "attempt"
  /\ attempts' = 0
  /\ UNCHANGED <<update, retries, track, client, calls, branch, outcome, nDone,
                 nDropped, nDeq, track0, client0, readerVars, uploads, spawned, upFailed,
                 queue, enqLog>>

\* the one-second sleep ends; the for loop goes on to i + 1
Wake ==
  /\ cPc = "sleep"
  /\ i' = i + 1
  /\ sleeps' = sleeps + 1
  /\ IF i + 1 < retries
       THEN cPc' = "attempt" /\ UNCHANGED <<outcome, nDone, nDropped>>
       ELSE /\ cPc' = "recv" /\ outcome' = "dropped"
            /\ nDone' = nDone + 1 /\ nDropped' = nDropped + 1
  /\ UNCHANGED <<update, retries, track, client, calls, branch, attempts,
                 nDeq, track0, client0, readerVars, uploads, spawned, upFailed, queue,
                 enqLog>>

\* a plausible slip: the loop ends as soon as subscribe has returned
ExitEarly ==
  /\ cPc = "recv"
  /\ rPc = "eof"
  /\ cPc' = "done"
  /\ UNCHANGED <<update, i, retries, track, client, calls, branch, attempts,
                 sleeps, outcome, nDeq, nDone, nDropped, track0, client0,
                 readerVars, uploads, spawned, upFailed, queue, enqLog>>

\* rx.recv() yields None: every sender is dropped and the channel is empty
Exit ==
  /\ cPc = "recv" /\ queue = <<>>
  /\ rPc = "eof" /\ uploads = {}
  /\ cPc' = "done"
  /\ UNCHANGED <<update, i, retries, track, client, calls, branch, attempts,
                 sleeps, outcome, nDeq, nDone, nDropped, track0, client0,
                 readerVars, uploads, spawned, upFailed, queue, enqLog>>

Controller == Recv \/ (\E f \in FailPoints : Attempt(f)) \/ Wake \/ Exit

Next ==
  \/ \E line \in Lines : ReadTrack(line)
  \/ \E line \in Lines : ReadBlank(line)
  \/ \E line \in Lines : ReadGarbage(line)
  \/ SendNew
  \/ ReadEof
  \/ \E task \in uploads : UploadOk(task)
  \/ \E task \in uploads : UploadFail(task)
  \/ Recv
  \/ \E f \in FailPoints : Attempt(f)
  \/ Wake
  \/ Exit

Spec == Init /\ [][Next]_vars

\* The producers alone.  subscribe and upload_cover read nothing the main
\* loop writes: the channel is unbounded and its receiver outlives them.
ProducerNext ==
  \/ \E line \in ProducerLines : ReadTrack(line)
  \/ \E line \in ProducerLines : ReadBlank(line)
  \/ \E line \in ProducerLines : ReadGarbage(line)
  \/ SendNew
  \/ ReadEof
  \/ \E task \in uploads : UploadOk(task)
  \/ \E task \in uploads : UploadFail(task)

ProducerSpec == InitWith(MaxReaderLines) /\ [][ProducerNext]_vars

\* The producers on one line of a larger set, for the decoder.
DecodeNext ==
  \/ \E line \in DecodeLines : ReadTrack(line)
  \/ \E line \in DecodeLines : ReadBlank(line)
  \/ \E line \in DecodeLines : ReadGarbage(line)
  \/ SendNew
  \/ ReadEof
  \/ \E task \in uploads : UploadOk(task)
  \/ \E task \in uploads : UploadFail(task)

DecodeSpec == InitWith(MaxDecodeLines) /\ [][DecodeNext]_vars

\* The whole program when no upload and no IPC operation fails and the main
\* loop makes at least one attempt.
OkInit == InitWith(MaxOkLines) /\ retries >= 1

OkNext ==
  \/ \E line \in OkLines : ReadTrack(line)
  \/ \E line \in OkLines : ReadBlank(line)
  \/ \E line \in OkLines : ReadGarbage(line)
  \/ SendNew
  \/ ReadEof
  \/ \E task \in uploads : UploadOk(task)
  \/ Recv
  \/ Attempt("none")
  \/ Exit

OkSpec == OkInit /\ [][OkNext]_vars

\* tokio runs the main task whenever it can make a step, and a sleep ends
FairSpec == InitWith(MaxLiveLines) /\ [][Next]_vars /\ WF_vars(Controller)

TypeOK ==
  /\ remaining \in 0..MaxReaderLines
  /\ rPc \in {"reading", "spawned", "eof"}
  /\ cPc \in {"recv", "attempt", "sleep", "done"}
  /\ client \in {"None", "Some"}
  /\ i \in 0..MaxRetries
  /\ attempts <= retries /\ sleeps <= retries

\* ----------------------------------------------------- helpers of claims
Range(s) == {s[k] : k \in DOMAIN s}
Max(S) == CHOOSE x \in S : \A y \in S : y <= x
IsNew(m) == m.type = "New"

\* the equality rule as the claims state it
SameByRule(a, b) ==
  <<a.title, a.artist, a.album, a.art_is_local, a.length>> =
  <<b.title, b.artist, b.album, b.art_is_local, b.length>>
IsReaderEvent(m) == m.type # "ImageUploaded"

\* the set_activity calls made by the latest call of handle
SetCalls == {c \in Range(calls) : c.op = "set_activity"}

\* handling of the update in `update` has started / has ended
Started == nDeq >= 1 /\ attempts >= 1
Ended == nDeq >= 1 /\ nDone = nDeq

\* the New update of the record decoded from line ln
NewOfLine(ln) == CHOOSE m \in Range(enqLog) : m.type = "New" /\ m.line = ln

\* ---------------------------------------------------------------------- C1
\* The update being handled is an ImageUploaded of an upload started for the
\* record of line a, and the track that was current when it was received was
\* adopted from a later line, is a different track and has different art.
StaleArt ==
  /\ Started /\ update.type = "ImageUploaded"
  /\ track0.start > update.line
  /\ ~SameByRule(track0, NewOfLine(update.line).track)
  /\ NewOfLine(track0.start).track.art_url # NewOfLine(update.line).track.art_url

\* C1: an ImageUploaded produced by the upload for track A that is handled
\* after a different track B became current changes neither B's art_url nor
\* the image of any activity sent for B.
C1_StaleArtIgnored ==
  StaleArt =>
    /\ track.art_url = track0.art_url
    /\ \A c \in SetCalls : c.act.large_image = track0.art_url

MaxUpdates == 2 * MaxLiveLines

\* C3: every update sent on the channel is eventually received and its
\* handling eventually ends, whatever the IPC calls return.
C3_Progress ==
  \A k \in 1..MaxUpdates : (Len(enqLog) >= k) ~> (nDone >= k)

C3_Witness == nDropped >= 1 /\ nDone >= 2 /\ outcome = "applied"

\* ---------------------------------------------------------------------- C4
\* the numbers of the lines that caused a reader event, in read order
EventLines ==
  SelectSeq([k \in 1..Len(lineLog) |-> k], LAMBDA k : lineLog[k] # "garbage")

ReaderEvents == SelectSeq(enqLog, IsReaderEvent)

\* C4: the channel holds exactly the updates sent and not yet received, in
\* send order; the k-th update received is the k-th sent; an update is
\* received only when the handling of the one before has ended; New and None
\* are sent in the order of their lines.
C4_Ordered ==
  /\ queue = SubSeq(enqLog, nDeq + 1, Len(enqLog))
  /\ nDeq >= 1 => update = enqLog[nDeq]
  /\ nDone <= nDeq /\ nDeq <= nDone + 1
  /\ (cPc \in {"attempt", "sleep"}) <=> (nDeq = nDone + 1)
  /\ Len(ReaderEvents) = Len(EventLines)
  /\ \A k \in DOMAIN ReaderEvents :
       /\ ReaderEvents[k].line = EventLines[k]
       /\ ReaderEvents[k].type =
            (IF lineLog[EventLines[k]] = "json" THEN "New" ELSE "None")

C4_Witness ==
  /\ nDone >= 3 /\ nDropped >= 1
  /\ \E k \in 1..(nDone - 1) : enqLog[k].type = "ImageUploaded"

\* ---------------------------------------------------------------------- C5
PlayingBefore(k) ==
  {j \in 1..(k - 1) : enqLog[j].type = "New" /\ ~enqLog[j].track.paused}

\* the update in `update` is a non-paused New whose closest earlier non-paused
\* New is equal to it
EqualPredecessor ==
  /\ nDeq >= 1 /\ update.type = "New" /\ ~update.track.paused
  /\ PlayingBefore(nDeq) # {}
  /\ SameByRule(enqLog[Max(PlayingBefore(nDeq))].track, update.track)

\* C5: the second of two consecutive equal non-paused New records never takes
\* the new-track arm: args.track is not replaced, the activity is set again.
C5_SameTrack ==
  EqualPredecessor =>
    /\ track = track0
    /\ branch \in {"-", "refresh"}
    /\ Started => branch = "refresh"

C5_Witness ==
  EqualPredecessor /\ Ended /\ outcome = "applied" /\ nDropped >= 1

\* ---------------------------------------------------------------------- C6
News == SelectSeq(enqLog, IsNew)

\* upload tasks spawned by the record of line ln
UploadsBy(ln) == Cardinality({k \in DOMAIN spawned : spawned[k].line = ln})

\* records k and k + 1 of the decoded records carry the same local art path
SamePathPair(k) ==
  /\ k + 1 <= Len(News)
  /\ News[k].track.art_is_local /\ News[k + 1].track.art_is_local
  /\ News[k].track.art_url = News[k + 1].track.art_url

\* C6 as claimed: two consecutive records with the same local art path start
\* exactly one upload task.
C6_ExactlyOneUpload ==
  \A k \in DOMAIN News :
    SamePathPair(k) => UploadsBy(News[k].line) + UploadsBy(News[k + 1].line) = 1

\* C6: of two consecutive records with the same local art path the second
\* starts no upload task, so the two start at most one, also while the upload
\* of the first is in flight.
C6_AtMostOneUpload ==
  \A k \in DOMAIN News :
    SamePathPair(k) =>
      /\ UploadsBy(News[k + 1].line) = 0
      /\ UploadsBy(News[k].line) + UploadsBy(News[k + 1].line) <= 1

C6_Witness ==
  \E k \in DOMAIN News :
    /\ SamePathPair(k)
    /\ [url |-> News[k].track.art_url, line |-> News[k].line] \in uploads

\* ---------------------------------------------------------------------- C7
\* C7 as claimed: no two upload tasks are ever spawned for the same path.
C7_OneUploadPerPath ==
  \A j, k \in DOMAIN spawned : j # k => spawned[j].url # spawned[k].url

\* C7: an upload task is spawned only for a path that differs from the path
\* of the upload task spawned last, which last_track holds.
C7_NoRepeatInARow ==
  /\ \A k \in 1..(Len(spawned) - 1) : spawned[k].url # spawned[k + 1].url
  /\ spawned # <<>> => last_track = spawned[Len(spawned)].url

C7_Witness ==
  Len(spawned) = 3 /\ spawned[1].url = spawned[3].url

\* ---------------------------------------------------------------------- C8
StopOrPause ==
  update.type = "None" \/ (update.type = "New" /\ update.track.paused)

\* C8: when the handling of a None update or of a paused New has ended, no
\* client is held, whatever clear_activity and close returned; when a client
\* was held and the first call of handle succeeded, it called clear_activity
\* and then close.
C8_ClearOnStop ==
  (Ended /\ StopOrPause) =>
    /\ client = "None"
    /\ (client0 = "Some" /\ attempts = 1 /\ outcome = "applied") =>
         calls = <<Call("clear_activity", NoAct), Call("close", NoAct)>>

C8_Witness ==
  /\ Ended /\ StopOrPause /\ client0 = "Some" /\ outcome = "applied"
  /\ calls = <<Call("clear_activity", NoAct), Call("close", NoAct)>>

\* ---------------------------------------------------------------------- C9
ReaderEventsBefore(k) == {j \in 1..(k - 1) : enqLog[j].type # "ImageUploaded"}

\* no record has been adopted yet, or the last reader event was None
NoTrackCurrent ==
  \/ track0.start = 0
  \/ /\ ReaderEventsBefore(nDeq) # {}
     /\ enqLog[Max(ReaderEventsBefore(nDeq))].type = "None"

\* C9: an ImageUploaded handled while no track is current makes no IPC call
\* and leaves the client unset.
C9_ArtWithoutTrack ==
  (Started /\ update.type = "ImageUploaded" /\ NoTrackCurrent) =>
    calls = <<>> /\ client = "None"

\* --------------------------------------------------------------------- C10
\* C10: the activity set for a non-paused New that is equal to the track held
\* when it was received starts at the start of the arriving record.
C10_RefreshRestarts ==
  (Started /\ update.type = "New" /\ ~update.track.paused
     /\ SameByRule(update.track, track0)) =>
    \A c \in SetCalls : c.act.start = update.track.start

\* --------------------------------------------------------------------- C11
\* the latest call of handle for the update in `update` returned Err
LastAttemptFailed ==
  \/ cPc = "sleep"
  \/ cPc = "attempt" /\ attempts >= 1
  \/ outcome = "dropped"

FreshConnect ==
  /\ Len(calls) >= 2
  /\ calls[1].op = "new" /\ calls[2].op = "connect"

\* C11: after a call of handle that returned Err no client is held, and a
\* call of handle that sets an activity after a failed call, or with no client
\* held on receipt, makes a new client and connects it first.
C11_SessionDiscarded ==
  /\ LastAttemptFailed => client = "None"
  /\ (attempts >= 2 /\ SetCalls # {}) => FreshConnect
  /\ (attempts = 1 /\ client0 = "None" /\ SetCalls # {}) => FreshConnect

C11_Witness ==
  /\ client0 = "Some" /\ attempts >= 2 /\ outcome = "applied"
  /\ SetCalls # {} /\ FreshConnect

\* --------------------------------------------------------------------- C12
\* the reader events sent for line k
EventsOfLine(k) ==
  {j \in DOMAIN enqLog : IsReaderEvent(enqLog[j]) /\ enqLog[j].line = k}

LineClassified(k) ==
  /\ Cardinality(EventsOfLine(k)) = (IF lineLog[k] = "garbage" THEN 0 ELSE 1)
  /\ \A j \in EventsOfLine(k) :
       enqLog[j].type = (IF lineLog[k] = "json" THEN "New" ELSE "None")

\* C12: a line that decodes sends one New, an empty line one None, any other
\* line nothing, and no other reader event is sent; having handled a line the
\* reader is still reading.
C12_LineClassification ==
  /\ [](\A k \in DOMAIN lineLog : LineClassified(k))
  /\ [](\A j \in DOMAIN enqLog :
          IsReaderEvent(enqLog[j]) => enqLog[j].line \in DOMAIN lineLog)
  /\ [][lineLog' # lineLog => rPc' = "reading"]_vars

C12_Witness ==
  /\ Len(lineLog) = 3 /\ rPc = "reading"
  /\ lineLog[1] = "garbage" /\ lineLog[2] = "blank" /\ lineLog[3] = "json"
  /\ Len(ReaderEvents) = 2

\* --------------------------------------------------------------------- C13
\* the ImageUploaded updates sent by the upload task of line ln
ImagesOf(ln) ==
  {j \in DOMAIN enqLog : enqLog[j].type = "ImageUploaded" /\ enqLog[j].line = ln}

\* C13: an upload task that returned Err has sent nothing; a task sends at
\* most one ImageUploaded, and none while it runs; every ImageUploaded comes
\* from a task that ended without Err; the failure of a task changes nothing
\* in the channel, the reader or the main loop.
C13_SilentUploadFailure ==
  /\ [](\A t \in upFailed : ImagesOf(t.line) = {})
  /\ [](\A t \in Range(spawned) :
          /\ Cardinality(ImagesOf(t.line)) <= 1
          /\ t \in uploads => ImagesOf(t.line) = {})
  /\ [](\A j \in DOMAIN enqLog :
          enqLog[j].type = "ImageUploaded" =>
            \E t \in Range(spawned) \ (uploads \cup upFailed) :
              t.line = enqLog[j].line)
  /\ [][upFailed' # upFailed =>
          UNCHANGED <<queue, enqLog, readerVars, ctlVars>>]_vars

\* an upload failed, a later record was still forwarded and applied
C13_Witness ==
  /\ \E t \in upFailed : Ended /\ update.type = "New" /\ update.line > t.line
  /\ outcome = "applied" /\ nDropped = 0

\* --------------------------------------------------------------------- C14
\* C14: once subscribe has returned it stays so, no line is read and no New
\* or None is sent any more; main leaves its loop only when subscribe has
\* returned, no upload task runs and every update sent has been handled; and
\* it does leave it once subscribe has returned and no upload task runs.
C14_FatalEof ==
  /\ [][rPc = "eof" =>
          rPc' = "eof" /\ lineLog' = lineLog /\ ReaderEvents' = ReaderEvents]_vars
  /\ [](cPc = "done" =>
          rPc = "eof" /\ uploads = {} /\ queue = <<>> /\ nDone = Len(enqLog))
  /\ (rPc = "eof" /\ uploads = {}) ~> (cPc = "done")

C14_Witness ==
  /\ cPc = "done" /\ nDone >= 2
  /\ \E j \in DOMAIN enqLog : enqLog[j].type = "ImageUploaded"

\* --------------------------------------------------------------------- C15
\* q is a / b with the fraction cut off
IsTruncQuot(q, a, b) ==
  IF a >= 0 THEN q * b <= a /\ a < (q + 1) * b
            ELSE q * b >= a /\ a > (q - 1) * b

\* C15: every activity sent starts at the start of args.track and ends
\* length / 1000 later, the quotient cut off toward zero; 245999 gives 245.
C15_EndTimestamp ==
  \A c \in SetCalls :
    /\ c.act.start = track.start
    /\ IsTruncQuot(c.act.end - track.start, track.length, 1000)
    /\ track.length = 245999 => c.act.end = track.start + 245

C15_Witness ==
  \E c \in SetCalls : track.length < 0 /\ c.act.end = track.start - 1

\* --------------------------------------------------------------------- C16
\* the record decoded from raw line l follows the rule of the claim
DecodedByRule(l, t) ==
  LET raw   == l.art_url
      local == Len(raw) > 0 /\ raw[1] = "file://"
  IN  /\ t.art_is_local = local
      /\ t.art_url = (IF local THEN SubSeq(raw, 2, Len(raw)) ELSE raw)
      /\ t.paused = ~(l.status = <<"Playing">>)

\* C16: art_is_local holds exactly when the raw art url starts with file://,
\* the stored url is then the raw one without that first marker and else the
\* raw one; paused is false exactly when the status is there and is Playing.
C16_DecodingRule ==
  \A j \in DOMAIN enqLog :
    enqLog[j].type = "New" =>
      DecodedByRule(rawLog[enqLog[j].line], enqLog[j].track)

C16_Witness ==
  \E j \in DOMAIN enqLog :
    /\ enqLog[j].type = "New"
    /\ rawLog[enqLog[j].line].art_url = <<"file://", "file://">> \o PathP
    /\ rawLog[enqLog[j].line].status = <<>>
    /\ enqLog[j].track.art_url = <<"file://">> \o PathP
    /\ enqLog[j].track.paused

\* --------------------------------------------------------------------- C17
\* C17: an ImageUploaded is sent only after the New of the record whose
\* upload task sent it.
C17_NewBeforeImage ==
  \A j \in DOMAIN enqLog :
    enqLog[j].type = "ImageUploaded" =>
      \E k \in 1..(j - 1) :
        enqLog[k].type = "New" /\ enqLog[k].line = enqLog[j].line

\* --------------------------------------------------------------------- C18
\* nothing is in the channel, in flight or half done
Quiescent ==
  /\ queue = <<>> /\ uploads = {}
  /\ rPc # "spawned"
  /\ cPc \in {"recv", "done"}

IsResolved(url) == Len(url) > 0 /\ url[1] = DownloadHost

\* C18: with no failure, once nothing is in the channel or in flight, the
\* activity displayed for a track whose art is local has a resolved remote
\* url as its image.
C18_ResolvedArtShown ==
  (Quiescent /\ client = "Some" /\ track.art_is_local) =>
    /\ SetCalls # {}
    /\ \A c \in SetCalls : IsResolved(c.act.large_image)

\* --------------------------------------------------------------------- C19
\* a paused New has been handled and no non-paused New was received after it
PausedNow ==
  \E k \in 1..nDone :
    /\ enqLog[k].type = "New" /\ enqLog[k].track.paused
    /\ \A j \in (k + 1)..nDeq :
         ~(enqLog[j].type = "New" /\ ~enqLog[j].track.paused)

\* C19: from the handling of a paused New until a non-paused New is
\* received, no client is held.
C19_NoPresenceWhilePaused == PausedNow => client = "None"

\* --------------------------------------------------------------------- C20
\* C20: an update whose handling has ended saw at least one call of handle.
C20_AtLeastOneAttempt == Ended => attempts >= 1

====
